---------------------------- MODULE Spec2Model ----------------------------
(***************************************************************************)
(* The profile routes of DevConnector (routes/api/profile.js) as a state   *)
(* machine over the Profile, User and Post collections.  A request is a    *)
(* slot of `req`; a handler is one action per store interaction, because a *)
(* handler yields to other requests at every `await`.                      *)
(*                                                                         *)
(* JavaScript strings that the code inspects character by character        *)
(* (skills, from, to) are sequences of one-character strings.              *)
(***************************************************************************)
EXTENDS Naturals, Sequences, FiniteSets, TLC

VARIABLES
    profiles,   \* the Profile collection: a set of documents
    users,      \* the User collection: the set of user ids that have a document
    posts,      \* the Post collection: a set of [_id, user]
    req,        \* the requests being handled, one per slot
    nextId      \* the next generated ObjectId (documents and sub-documents)

vars == <<profiles, users, posts, req, nextId>>

\* ------------------------------------------------------------- bounds
MaxId == 4          \* ObjectIds generated in one run
MaxSkillLen == 4    \* length of a skills string in SpecSkills
MaxSpecId == 3      \* ObjectIds generated in one run of Spec
Slots == {1, 2}                   \* requests handled at the same time
UserIds == {"u1", "u2"}           \* the authenticated callers
ObjectIdStrings == UserIds \cup {"u3"}   \* well-formed ids; "u3" has no document
PathIds == ObjectIdStrings \cup {"does-not-exist"}

\* ------------------------------------------------------------- strings
CharCode ==
    (" " :> 32) @@ ("," :> 44) @@ ("-" :> 45) @@ ("/" :> 47) @@
    ("0" :> 48) @@ ("1" :> 49) @@ ("2" :> 50) @@ ("3" :> 51) @@ ("4" :> 52) @@
    ("5" :> 53) @@ ("6" :> 54) @@ ("7" :> 55) @@ ("8" :> 56) @@ ("9" :> 57) @@
    ("a" :> 97) @@ ("b" :> 98)

\* a < b on two JavaScript strings: code unit by code unit, a proper prefix first
StrLess(a, b) ==
    \E i \in 1..Len(b) :
        /\ \A j \in 1..(i - 1) : j <= Len(a) /\ a[j] = b[j]
        /\ \/ Len(a) = i - 1
           \/ Len(a) >= i /\ CharCode[a[i]] < CharCode[b[i]]

IndexOf(s, c) ==
    IF \E i \in 1..Len(s) : s[i] = c
    THEN CHOOSE i \in 1..Len(s) : s[i] = c /\ \A j \in 1..(i - 1) : s[j] # c
    ELSE 0

\* String.prototype.split(c)
RECURSIVE Split(_, _)
Split(s, c) ==
    LET i == IndexOf(s, c)
    IN  IF i = 0 THEN <<s>>
        ELSE <<SubSeq(s, 1, i - 1)>> \o Split(SubSeq(s, i + 1, Len(s)), c)

\* String.prototype.trim()
RECURSIVE Trim(_)
Trim(s) ==
    IF s = <<>> THEN s
    ELSE IF s[1] = " " THEN Trim(Tail(s))
    ELSE IF s[Len(s)] = " " THEN Trim(SubSeq(s, 1, Len(s) - 1))
    ELSE s

\* parseInt of a run of decimal digits
RECURSIVE ToNumber(_)
ToNumber(s) ==
    IF s = <<>> THEN 0
    ELSE 10 * ToNumber(SubSeq(s, 1, Len(s) - 1)) + (CharCode[s[Len(s)]] - CharCode["0"])

\* The instant a date string denotes once the schema casts it to a Date, as a
\* number that grows with time: "M/D/YYYY" and "YYYY-MM-DD" are both accepted.
DateValue(s) ==
    IF IndexOf(s, "/") # 0
    THEN LET p == Split(s, "/")
         IN  ToNumber(p[3]) * 10000 + ToNumber(p[1]) * 100 + ToNumber(p[2])
    ELSE LET p == Split(s, "-")
         IN  ToNumber(p[1]) * 10000 + ToNumber(p[2]) * 100 + ToNumber(p[3])

\* Array.prototype.unshift
Unshift(s, e) == <<e>> \o s

\* ------------------------------------------------------------- documents
\* What `await Profile.findOne(...)` yields when nothing matches: null.
Null ==
    [_id |-> 0, user |-> "null", skills |-> <<>>,
     experience |-> <<>>, education |-> <<>>]

\* The bindings of the module scope of routes/api/profile.js.
ModuleBindings ==
    {"express", "axios", "config", "router", "auth", "body", "validationResult",
     "normalize", "Profile", "User", "compareSync"}

Matching(coll, u) == {d \in coll : d.user = u}

\* Model.findOne({ user: u }): the first matching document in insertion order
FindOne(coll, u) ==
    IF Matching(coll, u) = {} THEN Null
    ELSE CHOOSE d \in Matching(coll, u) : \A e \in Matching(coll, u) : d._id <= e._id

\* An id the driver cannot cast to ObjectId makes the query throw a CastError
\* whose kind is 'ObjectId'.
CastsToObjectId(id) == id \in ObjectIdStrings

\* ------------------------------------------------------------- requests
Idle ==
    [op |-> "none", pc |-> "idle", user |-> "null", profile |-> Null,
     arg |-> 0, status |-> 0, msg |-> ""]

\* a new request is handled in the first free slot
Free(r) == req[r].pc = "idle" /\ \A q \in Slots : q < r => req[q].pc # "idle"

\* a response: res.status(code) and what is sent
Response(code, msg) == [status |-> code, msg |-> msg]

\* res.status(code).json(...) / .send(...): the handler is over
Respond(r, op, u, code, msg, doc, arg) ==
    req' = [req EXCEPT ![r] =
        [op |-> op, pc |-> "done", user |-> u, profile |-> doc,
         arg |-> arg, status |-> code, msg |-> msg]]

\* the handler is suspended at `await profile.save()`
Suspend(r, op, u, doc, arg) ==
    req' = [req EXCEPT ![r] =
        [op |-> op, pc |-> "save", user |-> u, profile |-> doc,
         arg |-> arg, status |-> 0, msg |-> ""]]

\* ------------------------------------------------------------- POST /
\* body(f).notEmpty() on a string, and on each item of an array
NotEmpty(v) == v # <<>>

SkillsNotEmpty(skills) ==
    IF skills.isArray
    THEN \A i \in 1..Len(skills.arr) : NotEmpty(skills.arr[i])
    ELSE NotEmpty(skills.str)

PostErrors(body) ==
    (IF NotEmpty(body.status) THEN {} ELSE {"Status is required"})
    \cup (IF SkillsNotEmpty(body.skills) THEN {} ELSE {"Skills is required"})

\* mutant: skill => ' ' + skill
PadOnly(skill) == <<" ">> \o skill

\* skill => ' ' + skill.trim()
PadTrim(skill) == <<" ">> \o Trim(skill)

\* Array.isArray(skills) ? skills : skills.split(',').map(skill => ' ' + skill.trim())
NormalizeSkills(skills) ==
    IF skills.isArray THEN skills.arr
    ELSE LET parts == Split(skills.str, ",")
         IN  [i \in 1..Len(parts) |-> PadTrim(parts[i])]

\* { ...a, ...b }: the keys of b win
Spread(a, b) ==
    [k \in DOMAIN a \cup DOMAIN b |-> IF k \in DOMAIN b THEN b[k] ELSE a[k]]

\* const profileFields = { user: req.user.id, website, skills, ...rest }
ProfileFields(u, body) ==
    Spread([user |-> u, skills |-> NormalizeSkills(body.skills)], body.rest)

\* $set: fields on document d
SetFields(d, fields) ==
    [k \in DOMAIN d |-> IF k \in DOMAIN fields THEN fields[k] ELSE d[k]]

\* the document an upsert inserts: the filter's equality, then the schema defaults
NewProfile(id, u) ==
    [_id |-> id, user |-> u, skills |-> <<>>,
     experience |-> <<>>, education |-> <<>>]

\* Profile.findOneAndUpdate({ user: u }, { $set: fields }, { new: true, upsert: true })
UpsertTarget(coll, u, id) ==
    IF Matching(coll, u) = {} THEN NewProfile(id, u) ELSE FindOne(coll, u)

PostProfile(r, u, body) ==
    /\ Free(r)
    /\ IF PostErrors(body) # {}
       THEN /\ Respond(r, "post", u, 400, "errors", Null, 0)
            /\ UNCHANGED <<profiles, nextId>>
       ELSE /\ Matching(profiles, u) = {} => nextId <= MaxId
            /\ LET old == UpsertTarget(profiles, u, nextId)
                   new == SetFields(old, ProfileFields(u, body))
               IN  /\ profiles' = (profiles \ {old}) \cup {new}
                   /\ nextId' = IF Matching(profiles, u) = {} THEN nextId + 1 ELSE nextId
                   /\ Respond(r, "post", u, 200, "profile", Null, new._id)
    /\ UNCHANGED <<users, posts>>

\* ------------------------------------------------------------- GET /user/:user_id
\* Profile.findOne({ user: id }): the error the query throws, if any
FindOneError(id) == IF CastsToObjectId(id) THEN "none" ELSE "ObjectId"

\* mutant: the catch block without the error.kind test
GetCatchAlways500(kind) == Response(500, "Server Error")

\* catch (error): error.kind == 'ObjectId' ? 404 : 500
GetCatch(kind) ==
    IF kind = "ObjectId" THEN Response(404, "Profile not found")
    ELSE Response(500, "Server Error")

\* if (!profile) return res.status(404)...; res.json(profile)
GetAnswer(profile) ==
    IF profile = Null THEN Response(404, "Profile not found")
    ELSE Response(200, "profile")

GetProfileByUserId(r, id) ==
    /\ Free(r)
    /\ LET ans == IF FindOneError(id) # "none" THEN GetCatch(FindOneError(id))
                  ELSE GetAnswer(FindOne(profiles, id))
           doc == IF ans.status = 200 THEN FindOne(profiles, id) ELSE Null
       IN  Respond(r, "get", id, ans.status, ans.msg, Null, doc._id)
    /\ UNCHANGED <<profiles, users, posts, nextId>>

\* ------------------------------------------------------------- DELETE /
\* The array literal is evaluated left to right before Promise.all is called:
\* reading an identifier the module does not bind throws a ReferenceError, the
\* later elements are never evaluated and the catch block answers.
DeleteProfile(r, u) ==
    /\ Free(r)
    /\ IF "Post" \in ModuleBindings
       THEN /\ posts' = {p \in posts : p.user # u}
            /\ profiles' = profiles \ {FindOne(profiles, u)}
            /\ users' = users \ {u}
            /\ Respond(r, "delete", u, 200, "User has been deleted", Null, 0)
       ELSE /\ UNCHANGED <<posts, profiles, users>>
            /\ Respond(r, "delete", u, 500, "Server Error", Null, 0)
    /\ UNCHANGED nextId

\* ------------------------------------------------------------- PUT /experience, PUT /education
\* .custom((value, { req }) => req.body.to ? value < req.body.to : true)
FromBeforeTo(body) == IF body.to # <<>> THEN StrLess(body.from, body.to) ELSE TRUE

FromErrors(body) ==
    IF NotEmpty(body.from) /\ FromBeforeTo(body) THEN {}
    ELSE {"From date is required and needs to be from the past"}

ExperienceErrors(body) ==
    (IF NotEmpty(body.title) THEN {} ELSE {"Title is required"})
    \cup (IF NotEmpty(body.company) THEN {} ELSE {"Company is required"})
    \cup FromErrors(body)

EducationErrors(body) ==
    (IF NotEmpty(body.school) THEN {} ELSE {"School is required"})
    \cup (IF NotEmpty(body.degree) THEN {} ELSE {"Degree is required"})
    \cup (IF NotEmpty(body.fieldofstudy) THEN {} ELSE {"Filed of study is required"})
    \cup FromErrors(body)

\* const newExp = { title, company, location, from, to, current, description },
\* cast to a sub-document with a generated _id when it enters the array
NewExp(id, body) ==
    [_id |-> id, title |-> body.title, company |-> body.company,
     from |-> body.from, to |-> body.to]

NewEdu(id, body) ==
    [_id |-> id, school |-> body.school, degree |-> body.degree,
     fieldofstudy |-> body.fieldofstudy, from |-> body.from, to |-> body.to]

\* mutant: profile.experience.push(newExp)
AddExperienceAtTail(profile, entry) ==
    [profile EXCEPT !.experience = Append(profile.experience, entry)]

\* profile.experience.unshift(newExp) on the loaded document
AddExperience(profile, entry) ==
    [profile EXCEPT !.experience = Unshift(profile.experience, entry)]

AddEducation(profile, entry) ==
    [profile EXCEPT !.education = Unshift(profile.education, entry)]

\* mutant: list.splice(list.map(e => e.id).indexOf(id), 1), where an index of
\* -1 removes the last entry
WithoutIndexOfId(list, id) ==
    IF list = <<>> THEN <<>>
    ELSE IF \E i \in 1..Len(list) : list[i]._id = id
    THEN LET i == CHOOSE i \in 1..Len(list) : list[i]._id = id
         IN  SubSeq(list, 1, i - 1) \o SubSeq(list, i + 1, Len(list))
    ELSE SubSeq(list, 1, Len(list) - 1)

\* list.filter(e => e._id.toString() !== id)
RECURSIVE WithoutId(_, _)
WithoutId(list, id) ==
    IF list = <<>> THEN <<>>
    ELSE (IF list[1]._id # id THEN <<list[1]>> ELSE <<>>) \o WithoutId(Tail(list), id)

RemoveExperience(profile, id) ==
    [profile EXCEPT !.experience = WithoutId(profile.experience, id)]

RemoveEducation(profile, id) ==
    [profile EXCEPT !.education = WithoutId(profile.education, id)]

\* document.save(): writes the modified path of the document with this _id
Saved(coll, doc, path) ==
    {IF d._id = doc._id THEN [d EXCEPT ![path] = doc[path]] ELSE d : d \in coll}

SaveFails(coll, doc) == \A d \in coll : d._id # doc._id

\* mutant: an add stores its entry with an atomic $push at position 0 instead
\* of writing the array it loaded
SaveAndRespondPushed(r, op, path) ==
    /\ req[r].pc = "save"
    /\ req[r].op = op
    /\ profiles' =
          {IF d._id = req[r].profile._id
           THEN [d EXCEPT ![path] =
                    IF op \in {"putExperience", "putEducation"}
                    THEN Unshift(d[path], Head(req[r].profile[path]))
                    ELSE req[r].profile[path]]
           ELSE d : d \in profiles}
    /\ Respond(r, op, req[r].user, 200, "profile", Null, req[r].arg)
    /\ UNCHANGED <<users, posts, nextId>>

\* await profile.save(); res.json(profile), with the catch block around it
SaveAndRespond(r, op, path) ==
    /\ req[r].pc = "save"
    /\ req[r].op = op
    /\ IF SaveFails(profiles, req[r].profile)
       THEN /\ UNCHANGED profiles
            /\ Respond(r, op, req[r].user, 500, "Server Error", Null, req[r].arg)
       ELSE /\ profiles' = Saved(profiles, req[r].profile, path)
            /\ Respond(r, op, req[r].user, 200, "profile", Null, req[r].arg)
    /\ UNCHANGED <<users, posts, nextId>>

PutExperience(r, u, body) ==
    /\ Free(r)
    /\ IF ExperienceErrors(body) # {}
       THEN /\ Respond(r, "putExperience", u, 400, "errors", Null, 0)
            /\ UNCHANGED nextId
       ELSE IF FindOne(profiles, u) = Null
       THEN \* profile.experience of null: TypeError, caught
            /\ Respond(r, "putExperience", u, 500, "Server Error", Null, 0)
            /\ UNCHANGED nextId
       ELSE /\ nextId <= MaxId
            /\ Suspend(r, "putExperience", u,
                       AddExperience(FindOne(profiles, u), NewExp(nextId, body)), nextId)
            /\ nextId' = nextId + 1
    /\ UNCHANGED <<profiles, users, posts>>

PutExperienceSave(r) ==
    /\ req[r].pc = "save"
    /\ SaveAndRespond(r, "putExperience", "experience")

PutEducation(r, u, body) ==
    /\ Free(r)
    /\ IF EducationErrors(body) # {}
       THEN /\ Respond(r, "putEducation", u, 400, "errors", Null, 0)
            /\ UNCHANGED nextId
       ELSE IF FindOne(profiles, u) = Null
       THEN /\ Respond(r, "putEducation", u, 500, "Server Error", Null, 0)
            /\ UNCHANGED nextId
       ELSE /\ nextId <= MaxId
            /\ Suspend(r, "putEducation", u,
                       AddEducation(FindOne(profiles, u), NewEdu(nextId, body)), nextId)
            /\ nextId' = nextId + 1
    /\ UNCHANGED <<profiles, users, posts>>

PutEducationSave(r) ==
    /\ req[r].pc = "save"
    /\ SaveAndRespond(r, "putEducation", "education")

\* ------------------------------------------------------------- DELETE /experience/:id, /education/:id
\* mutant: a missing Profile is answered like GET /me answers it
DeleteExperienceChecked(r, u, id) ==
    /\ Free(r)
    /\ IF FindOne(profiles, u) = Null
       THEN Respond(r, "deleteExperience", u, 400, "There is no profile for this user", Null, id)
       ELSE Suspend(r, "deleteExperience", u, RemoveExperience(FindOne(profiles, u), id), id)
    /\ UNCHANGED <<profiles, users, posts, nextId>>

DeleteExperience(r, u, id) ==
    /\ Free(r)
    /\ IF FindOne(profiles, u) = Null
       THEN \* foundProfile.experience of null: TypeError, caught
            Respond(r, "deleteExperience", u, 500, "Server Error", Null, id)
       ELSE Suspend(r, "deleteExperience", u, RemoveExperience(FindOne(profiles, u), id), id)
    /\ UNCHANGED <<profiles, users, posts, nextId>>

DeleteExperienceSave(r) ==
    /\ req[r].pc = "save"
    /\ SaveAndRespond(r, "deleteExperience", "experience")

DeleteEducation(r, u, id) ==
    /\ Free(r)
    /\ IF FindOne(profiles, u) = Null
       THEN Respond(r, "deleteEducation", u, 500, "Server Error", Null, id)
       ELSE Suspend(r, "deleteEducation", u, RemoveEducation(FindOne(profiles, u), id), id)
    /\ UNCHANGED <<profiles, users, posts, nextId>>

DeleteEducationSave(r) ==
    /\ req[r].pc = "save"
    /\ SaveAndRespond(r, "deleteEducation", "education")

\* the response has been sent: the slot takes the next request
Close(r) ==
    /\ req[r].pc = "done"
    /\ req' = [req EXCEPT ![r] = Idle]
    /\ UNCHANGED <<profiles, users, posts, nextId>>

\* ------------------------------------------------------------- inputs
Str(isArray, str, arr) == [isArray |-> isArray, str |-> str, arr |-> arr]

Sep2020 == <<"9", "/", "1", "/", "2", "0", "2", "0">>
Oct2020 == <<"1", "0", "/", "1", "/", "2", "0", "2", "0">>
Iso2019 == <<"2", "0", "1", "9", "-", "0", "1", "-", "0", "1">>
Iso2021 == <<"2", "0", "2", "1", "-", "0", "1", "-", "0", "1">>

InitialPosts == {[_id |-> n, user |-> "u1"] : n \in 1..3} \cup {[_id |-> 4, user |-> "u2"]}

Init ==
    /\ profiles = {}
    /\ users = UserIds
    /\ posts = InitialPosts
    /\ req = [r \in Slots |-> Idle]
    /\ nextId = 1

\* ------------------------------------------------------------- specification: ownership
PostBodies ==
    [status : {<<>>, <<"a">>},
     skills : {Str(FALSE, <<"a", ",", "b">>, <<>>)},
     rest : {<<>>} \cup {[user |-> v] : v \in UserIds}]

ExperienceBodies ==
    [title : {<<"a">>}, company : {<<>>, <<"b">>}, from : {Iso2019}, to : {<<>>}]

EducationBodies ==
    [school : {<<"a">>}, degree : {<<>>, <<"b">>}, fieldofstudy : {<<"a">>},
     from : {Iso2019}, to : {<<>>}]

\* Spec generates no ObjectId beyond MaxSpecId
Capped == nextId' <= MaxSpecId + 1

Next ==
    \E r \in Slots :
        \/ \E u \in UserIds, body \in PostBodies : PostProfile(r, u, body) /\ Capped
        \/ \E id \in PathIds : GetProfileByUserId(r, id)
        \/ \E u \in UserIds : DeleteProfile(r, u)
        \/ \E u \in UserIds, body \in ExperienceBodies : PutExperience(r, u, body) /\ Capped
        \/ PutExperienceSave(r)
        \/ \E u \in UserIds, body \in EducationBodies : PutEducation(r, u, body) /\ Capped
        \/ PutEducationSave(r)
        \/ \E u \in UserIds, id \in 1..MaxId : DeleteExperience(r, u, id)
        \/ DeleteExperienceSave(r)
        \/ \E u \in UserIds, id \in 1..MaxId : DeleteEducation(r, u, id)
        \/ DeleteEducationSave(r)
        \/ Close(r)

Spec == Init /\ [][Next]_vars

\* ------------------------------------------------------------- specification: the lists
ListCallers == {"u1"}

ListPostBodies ==
    [status : {<<"a">>}, skills : {Str(TRUE, <<>>, << <<"a">> >>)}, rest : {<<>>}]

NextLists ==
    \E r \in Slots :
        \/ \E u \in ListCallers, body \in ListPostBodies : PostProfile(r, u, body)
        \/ \E id \in PathIds : GetProfileByUserId(r, id)
        \/ \E u \in ListCallers, body \in ExperienceBodies : PutExperience(r, u, body)
        \/ PutExperienceSave(r)
        \/ \E u \in ListCallers, body \in EducationBodies : PutEducation(r, u, body)
        \/ PutEducationSave(r)
        \/ \E u \in ListCallers, id \in 1..MaxId : DeleteExperience(r, u, id)
        \/ DeleteExperienceSave(r)
        \/ \E u \in ListCallers, id \in 1..MaxId : DeleteEducation(r, u, id)
        \/ DeleteEducationSave(r)
        \/ Close(r)

SpecLists == Init /\ [][NextLists]_vars

\* ------------------------------------------------------------- specification: skills
SkillChars == {"a", " ", ","}

RECURSIVE StringsUpTo(_)
StringsUpTo(n) ==
    IF n = 0 THEN {<<>>}
    ELSE LET shorter == StringsUpTo(n - 1)
         IN  shorter \cup {Append(s, c) : s \in shorter, c \in SkillChars}

SkillArrays ==
    {<<>>, << <<"a">> >>, << <<"a">>, <<"b">> >>, << <<" ", "a">>, <<"a", ",", "b">> >>,
     << <<"a">>, <<>> >>}

SkillBodies ==
    [status : {<<"a">>},
     skills : {Str(FALSE, s, <<>>) : s \in StringsUpTo(MaxSkillLen)}
              \cup {Str(TRUE, <<>>, a) : a \in SkillArrays},
     rest : {<<>>}]

NextSkills ==
    \E r \in {1} :
        \/ \E u \in ListCallers, body \in SkillBodies : PostProfile(r, u, body)
        \/ Close(r)

SpecSkills == Init /\ [][NextSkills]_vars

\* ------------------------------------------------------------- specification: dates
DateStrings == {Iso2019, Iso2021, Sep2020, Oct2020}

DateExperienceBodies ==
    [title : {<<"a">>}, company : {<<"b">>},
     from : DateStrings \cup {<<>>}, to : DateStrings \cup {<<>>}]

DateEducationBodies ==
    [school : {<<"a">>}, degree : {<<"b">>}, fieldofstudy : {<<"a">>},
     from : DateStrings \cup {<<>>}, to : DateStrings \cup {<<>>}]

\* the caller's Profile is already stored
InitDates ==
    /\ profiles = {[NewProfile(1, "u1") EXCEPT !.skills = << <<"a">> >>]}
    /\ users = UserIds
    /\ posts = InitialPosts
    /\ req = [r \in Slots |-> Idle]
    /\ nextId = 2

NextDates ==
    \E r \in {1} :
        \/ \E u \in ListCallers, body \in DateExperienceBodies : PutExperience(r, u, body)
        \/ PutExperienceSave(r)
        \/ \E u \in ListCallers, body \in DateEducationBodies : PutEducation(r, u, body)
        \/ PutEducationSave(r)
        \/ Close(r)

SpecDates == InitDates /\ [][NextDates]_vars

\* C4: an add-experience or add-education request whose from and to are both
\* supplied, with from chronologically after to, is answered 400 and leaves
\* the store as it was.
Supplied(body) == body.from # <<>> /\ body.to # <<>>

FromAfterTo(body) == Supplied(body) /\ DateValue(body.from) > DateValue(body.to)

Rejected(r) ==
    /\ req'[r].pc = "done"
    /\ req'[r].status = 400
    /\ req'[r].msg = "errors"
    /\ profiles' = profiles

C4_InvertedDatesRejected ==
    [][\A r \in Slots, u \in ListCallers :
        /\ \A body \in DateExperienceBodies :
              PutExperience(r, u, body) /\ FromAfterTo(body) => Rejected(r)
        /\ \A body \in DateEducationBodies :
              PutEducation(r, u, body) /\ FromAfterTo(body) => Rejected(r)]_vars

\* ------------------------------------------------------------- ownership claims
\* C1: the Profile collection never holds two Profiles of one user, whatever
\* upsert-profile calls were made and however they interleaved.
C1_AtMostOneProfilePerUser ==
    \A u \in ObjectIdStrings : Cardinality(Matching(profiles, u)) <= 1

\* C2: once delete-own-profile by u has answered, the answer is the 200
\* acknowledgement and no Post, Profile or User document of u is left.
C2_DeleteRemovesEverything ==
    [][\A r \in Slots, u \in UserIds :
        DeleteProfile(r, u) =>
            /\ req'[r].status = 200
            /\ req'[r].msg = "User has been deleted"
            /\ {p \in posts' : p.user = u} = {}
            /\ Matching(profiles', u) = {}
            /\ u \notin users']_vars

\* C10: the document upsert-profile writes for caller u has user = u, and no
\* upsert, add or remove call by u touches the Profiles of another user.
OthersUntouched(u) ==
    \A v \in ObjectIdStrings \ {u} : Matching(profiles', v) = Matching(profiles, v)

SaveStep(r) ==
    \/ PutExperienceSave(r)
    \/ PutEducationSave(r)
    \/ DeleteExperienceSave(r)
    \/ DeleteEducationSave(r)

C10_CallerOwnsWhatItWrites ==
    [][\A r \in Slots :
        /\ \A u \in UserIds, body \in PostBodies :
              PostProfile(r, u, body) /\ req'[r].status = 200 =>
                  /\ \E d \in profiles' : d._id = req'[r].arg /\ d.user = u
                  /\ OthersUntouched(u)
        /\ SaveStep(r) => OthersUntouched(req[r].user)]_vars

\* ------------------------------------------------------------- list claims
Stored(id) == CHOOSE d \in profiles : d._id = id
StoredAfter(id) == CHOOSE d \in profiles' : d._id = id
Ids(list) == {list[i]._id : i \in 1..Len(list)}
Answered(r, op) == req[r].pc = "done" /\ req[r].op = op /\ req[r].status = 200

\* C3: a successful add-experience (add-education) puts the new entry first in
\* the stored list, followed by the entries the list had, in their order.
C3_NewEntryFirst ==
    [][\A r \in Slots, u \in ListCallers :
        /\ \A body \in ExperienceBodies :
              PutExperience(r, u, body) /\ req'[r].pc = "save" =>
                  /\ Head(req'[r].profile.experience) = NewExp(req'[r].arg, body)
                  /\ Tail(req'[r].profile.experience) = FindOne(profiles, u).experience
        /\ PutExperienceSave(r) /\ req'[r].status = 200 =>
              /\ Head(StoredAfter(req[r].profile._id).experience)._id = req[r].arg
              /\ StoredAfter(req[r].profile._id).experience = req[r].profile.experience
        /\ \A body \in EducationBodies :
              PutEducation(r, u, body) /\ req'[r].pc = "save" =>
                  /\ Head(req'[r].profile.education) = NewEdu(req'[r].arg, body)
                  /\ Tail(req'[r].profile.education) = FindOne(profiles, u).education
        /\ PutEducationSave(r) /\ req'[r].status = 200 =>
              /\ Head(StoredAfter(req[r].profile._id).education)._id = req[r].arg
              /\ StoredAfter(req[r].profile._id).education = req[r].profile.education]_vars

C3_Witness ==
    \E r \in Slots :
        /\ Answered(r, "putExperience")
        /\ LET list == FindOne(profiles, req[r].user).experience
           IN  Len(list) >= 2 /\ list[1]._id = req[r].arg

\* C5: remove-experience (remove-education) with an id no entry has leaves the
\* list as it was; with the id of an entry it drops that entry and keeps the
\* others in order; it answers 200 either way.
RemovedExactly(old, new, id) ==
    IF id \notin Ids(old) THEN new = old
    ELSE \E i \in 1..Len(old) :
            /\ old[i]._id = id
            /\ new = SubSeq(old, 1, i - 1) \o SubSeq(old, i + 1, Len(old))

C5_RemoveExactlyOne ==
    [][\A r \in Slots, u \in ListCallers, id \in 1..MaxId :
        /\ DeleteExperience(r, u, id) /\ FindOne(profiles, u) # Null =>
              /\ req'[r].pc = "save"
              /\ RemovedExactly(FindOne(profiles, u).experience,
                                req'[r].profile.experience, id)
        /\ DeleteExperienceSave(r) =>
              /\ req'[r].status = 200
              /\ StoredAfter(req[r].profile._id).experience = req[r].profile.experience
        /\ DeleteEducation(r, u, id) /\ FindOne(profiles, u) # Null =>
              /\ req'[r].pc = "save"
              /\ RemovedExactly(FindOne(profiles, u).education,
                                req'[r].profile.education, id)
        /\ DeleteEducationSave(r) =>
              /\ req'[r].status = 200
              /\ StoredAfter(req[r].profile._id).education = req[r].profile.education]_vars

\* one request removed the middle entry of three, another named an id no entry has
C5_Witness ==
    \E r, q \in Slots :
        /\ Answered(r, "deleteExperience")
        /\ Answered(q, "deleteExperience")
        /\ LET list == FindOne(profiles, req[r].user).experience
           IN  /\ Len(list) = 2
               /\ list[1]._id > req[r].arg
               /\ req[r].arg > list[2]._id
               /\ req[q].arg < list[2]._id

\* C6: get-profile-by-user-id answers 404 {msg: 'Profile not found'} both for
\* an id that is no well-formed identifier and for a well-formed id without a
\* Profile.
MalformedIds == {"does-not-exist"}

C6_SameNotFound ==
    [][\A r \in Slots, id \in PathIds :
        GetProfileByUserId(r, id) /\ (id \in MalformedIds \/ Matching(profiles, id) = {}) =>
            /\ req'[r].status = 404
            /\ req'[r].msg = "Profile not found"]_vars

C6_Witness ==
    \E r, q \in Slots :
        /\ req[r].pc = "done" /\ req[r].op = "get" /\ req[r].user \in MalformedIds
        /\ req[q].pc = "done" /\ req[q].op = "get" /\ req[q].user = "u3"
        /\ req[r].status = 404 /\ req[q].status = req[r].status /\ req[q].msg = req[r].msg

\* C8: two add requests on one Profile that both load before either saves
\* lose an update: both are answered 200 and the stored list holds only the
\* entry of the one that saved last.
Overwrites(r, q, path) ==
    /\ req'[r].status = 200
    /\ req[r].arg \in Ids(StoredAfter(req[r].profile._id)[path])
    /\ req[q].arg \notin Ids(StoredAfter(req[r].profile._id)[path])

C8_LastWriteWins ==
    [][\A r, q \in Slots :
        /\ ( /\ PutExperienceSave(r)
             /\ Answered(q, "putExperience")
             /\ req[q].user = req[r].user
             /\ req[q].arg \notin Ids(req[r].profile.experience) )
           => Overwrites(r, q, "experience")
        /\ ( /\ PutEducationSave(r)
             /\ Answered(q, "putEducation")
             /\ req[q].user = req[r].user
             /\ req[q].arg \notin Ids(req[r].profile.education) )
           => Overwrites(r, q, "education")]_vars

C8_Witness ==
    \E r, q \in Slots :
        /\ Answered(r, "putExperience")
        /\ Answered(q, "putExperience")
        /\ req[r].user = req[q].user
        /\ req[r].arg > req[q].arg
        /\ nextId = req[r].arg + 1
        /\ Ids(FindOne(profiles, req[r].user).experience) = {req[q].arg}

\* C9: add-experience, add-education, remove-experience and remove-education
\* called by a user without a Profile answer 500 'Server Error' and leave the
\* store as it was.
ServerError(r) ==
    /\ req'[r].pc = "done"
    /\ req'[r].status = 500
    /\ req'[r].msg = "Server Error"
    /\ profiles' = profiles

C9_NoProfileIs500 ==
    [][\A r \in Slots, u \in ListCallers :
        Matching(profiles, u) = {} =>
            /\ \A body \in ExperienceBodies : PutExperience(r, u, body) => ServerError(r)
            /\ \A body \in EducationBodies : PutEducation(r, u, body) => ServerError(r)
            /\ \A id \in 1..MaxId : DeleteExperience(r, u, id) => ServerError(r)
            /\ \A id \in 1..MaxId : DeleteEducation(r, u, id) => ServerError(r)]_vars

\* C9 as amended: the add requests are those that pass validation.
C9_NoProfileIs500WhenValid ==
    [][\A r \in Slots, u \in ListCallers :
        Matching(profiles, u) = {} =>
            /\ \A body \in ExperienceBodies :
                  PutExperience(r, u, body) /\ ExperienceErrors(body) = {} => ServerError(r)
            /\ \A body \in EducationBodies :
                  PutEducation(r, u, body) /\ EducationErrors(body) = {} => ServerError(r)
            /\ \A id \in 1..MaxId : DeleteExperience(r, u, id) => ServerError(r)
            /\ \A id \in 1..MaxId : DeleteEducation(r, u, id) => ServerError(r)]_vars

C9_Witness ==
    \E r, q \in Slots :
        /\ req[r].pc = "done" /\ req[r].op = "putExperience" /\ req[r].status = 500
        /\ req[q].pc = "done" /\ req[q].op = "deleteEducation" /\ req[q].status = 500
        /\ Matching(profiles, req[r].user) = {}
        /\ Matching(profiles, req[q].user) = {}

\* ------------------------------------------------------------- skills claim
RECURSIVE Count(_, _)
Count(s, c) ==
    IF s = <<>> THEN 0 ELSE (IF s[1] = c THEN 1 ELSE 0) + Count(Tail(s), c)

RECURSIVE Without(_, _)
Without(s, c) ==
    IF s = <<>> THEN <<>>
    ELSE (IF s[1] = c THEN <<>> ELSE <<s[1]>>) \o Without(Tail(s), c)

RECURSIVE Join(_, _)
Join(list, c) ==
    IF list = <<>> THEN <<>>
    ELSE IF Len(list) = 1 THEN list[1]
    ELSE list[1] \o <<c>> \o Join(Tail(list), c)

Trimmed(s) == s = <<>> \/ (s[1] # " " /\ s[Len(s)] # " ")

\* C7: upsert-profile stores skills as a list: a string with n comma-separated
\* parts becomes n elements in the same order, each the part trimmed behind one
\* leading space; a list is stored as given.
ListOfParts(skills, str) ==
    /\ Len(skills) = Count(str, ",") + 1
    /\ \A i \in 1..Len(skills) : Head(skills[i]) = " " /\ Trimmed(Tail(skills[i]))
    /\ Without(Join([i \in 1..Len(skills) |-> Tail(skills[i])], ","), " ")
           = Without(str, " ")

C7_SkillsStoredAsList ==
    [][\A r \in Slots, u \in ListCallers, body \in SkillBodies :
        PostProfile(r, u, body) /\ req'[r].status = 200 =>
            LET skills == StoredAfter(req'[r].arg).skills
            IN  IF body.skills.isArray THEN skills = body.skills.arr
                ELSE ListOfParts(skills, body.skills.str)]_vars

C7_Witness ==
    \E r \in Slots :
        /\ Answered(r, "post")
        /\ Stored(req[r].arg).skills = << <<" ", "a">>, <<" ", "a">>, <<" ">> >>

=============================================================================
